---- MODULE Spec2Model ----
(***************************************************************************)
(* CFG arithmetic expression validator (aaaa.py).                          *)
(*                                                                         *)
(* validate_expression hands the string to a Lark LALR(1) parser built     *)
(* from GRAMMAR (contextual lexer, the LALR default) and folds the         *)
(* parser's exceptions into a (is_valid, error) pair.  The model holds     *)
(*   - the lexer: the terminals NUMBER, PLUS, MINUS, STAR, SLASH, LPAR,    *)
(*     RPAR and the ignored WS_INLINE, matched on a sequence of            *)
(*     characters;                                                         *)
(*   - the LALR(1) tables of GRAMMAR and the shift/reduce loop;            *)
(*   - validate_expression's try/except;                                   *)
(*   - the Tk presentation layer's check / clear / insert_example.         *)
(* A string is a sequence of one-character strings.                        *)
(***************************************************************************)
EXTENDS Integers, Sequences, FiniteSets, TLC

VARIABLES
    expr,          \* the string a caller holds (argument of validate_expression)
    ret,           \* what the last validate_expression call returned
    lexer_state,   \* LexerState of the last parse (text, char_pos, last_token)
    state_stack,   \* ParserState.state_stack of the last parse
    input_var,     \* CFGValidatorApp.input_var (the entry's text)
    status,        \* CFGValidatorApp.status
    result_box,    \* CFGValidatorApp.result_box, one element per line
    messagebox,    \* title of the last messagebox.showinfo dialog, "" if none
    first          \* history: the first call made with each string and its outcome

vars == <<expr, ret, lexer_state, state_stack, input_var, status, result_box,
          messagebox, first>>

----------------------------------------------------------------------------
(* Bounds *)

MaxLen == 4      \* longest enumerated argument string
MaxEntry == 3    \* longest enumerated entry text of the presentation layer
MaxLog == 1      \* lines kept in result_box
MaxCalls == 2    \* distinct strings remembered by the call history

\* characters enumerated exhaustively up to MaxLen
Alphabet == {"1", ".", "e", "+", "-", "*", "(", ")", " "}
\* characters enumerated exhaustively in the entry up to MaxEntry
EntryAlphabet == {"1", "+", "*", " "}

----------------------------------------------------------------------------
(* Characters and terminals: %import common.NUMBER, common.WS_INLINE *)

None == "None"

DIGIT == {"0", "1", "2", "3", "4", "5", "6", "7", "8", "9"}
WS_INLINE == {" ", "\t"}

\* anonymous terminals of GRAMMAR, by their character
Punct == [c \in {"+", "-", "*", "/", "(", ")"} |->
            CASE c = "+" -> "PLUS" [] c = "-" -> "MINUS" [] c = "*" -> "STAR"
              [] c = "/" -> "SLASH" [] c = "(" -> "LPAR" [] c = ")" -> "RPAR"]

Terminals == {"NUMBER", "PLUS", "MINUS", "STAR", "SLASH", "LPAR", "RPAR"}

At(text, i) == IF i >= 1 /\ i <= Len(text) THEN text[i] ELSE ""

\* index just past the maximal run of characters of set S that starts at
\* 1-based index i
RECURSIVE RunEnd(_, _, _)
RunEnd(text, i, S) ==
    IF At(text, i) \in S THEN RunEnd(text, i + 1, S) ELSE i

\* SIGNED_INT: ["+"|"-"] INT, that starts at j; i when it does not match
SignedIntEnd(i, j, k) == IF k > j THEN k ELSE i

\* _EXP?: ("e"|"E") SIGNED_INT, taken when it matches, skipped otherwise
ExpFrom(text, i, j) == SignedIntEnd(i, j, RunEnd(text, j, DIGIT))
ExpEnd(text, i) ==
    IF At(text, i) \in {"e", "E"}
    THEN ExpFrom(text, i, IF At(text, i + 1) \in {"+", "-"} THEN i + 2 ELSE i + 1)
    ELSE i

\* the end of a NUMBER that starts at i with the digits up to d, or, d = i,
\* with a "." and a digit: INT "." INT? _EXP?, INT _EXP, INT or "." INT _EXP?
NumberFrom(text, i, d) ==
    ExpEnd(text,
           CASE d > i /\ At(text, d) = "." -> RunEnd(text, d + 1, DIGIT)
             [] d > i -> d
             [] OTHER -> RunEnd(text, i + 1, DIGIT))

\* NUMBER: FLOAT | INT, FLOAT: INT _EXP | DECIMAL _EXP?,
\* DECIMAL: INT "." INT? | "." INT.  Index just past the match that starts at
\* i, or i when NUMBER does not match there.
MatchNumber(text, i) ==
    IF At(text, i) \in DIGIT \/ (At(text, i) = "." /\ At(text, i + 1) \in DIGIT)
    THEN NumberFrom(text, i, RunEnd(text, i, DIGIT))
    ELSE i

----------------------------------------------------------------------------
(* Lexer: lark's scanner over the terminals a parser state accepts *)

NoToken == [type |-> None, start_pos |-> 0, end_pos |-> 0]

\* Token(type, value, start_pos, ..., end_pos); offsets are 0-based
Token(type, start_pos, end_pos) ==
    [type |-> type, start_pos |-> start_pos, end_pos |-> end_pos]

\* LexerState(text): a fresh scan position at the start of the text
MakeLexerState(text) ==
    [text |-> text, char_pos |-> 0, last_token |-> NoToken]

\* Scanner.match at 0-based offset pos: the terminal (an accepted one or the
\* ignored WS_INLINE) that matches there and the offset just past it
match_at(text, pos, accepts, c, n) ==
    IF c \in WS_INLINE
    THEN [type |-> "WS_INLINE", end |-> RunEnd(text, pos + 1, WS_INLINE) - 1]
    ELSE IF "NUMBER" \in accepts /\ n > pos
    THEN [type |-> "NUMBER", end |-> n]
    ELSE IF c \in DOMAIN Punct /\ Punct[c] \in accepts
    THEN [type |-> Punct[c], end |-> pos + 1]
    ELSE [type |-> None, end |-> pos]
match(text, pos, accepts) ==
    match_at(text, pos, accepts, At(text, pos + 1),
             MatchNumber(text, pos + 1) - 1)

\* BasicLexer.next_token: skip ignored terminals, return the next token,
\* raise UnexpectedCharacters where nothing matches, EOFError at the end
RECURSIVE next_token(_, _)
Matched(ls, t) ==
    [kind |-> "token", token |-> t,
     lexer_state |-> [ls EXCEPT !.char_pos = t.end_pos, !.last_token = t]]
next_token_res(ls, accepts, res) ==
    IF res.type = None
    THEN [kind |-> "UnexpectedCharacters", lexer_state |-> ls]
    ELSE IF res.type = "WS_INLINE"
    THEN next_token([ls EXCEPT !.char_pos = res.end], accepts)
    ELSE Matched(ls, Token(res.type, ls.char_pos, res.end))
next_token(ls, accepts) ==
    IF ls.char_pos >= Len(ls.text)
    THEN [kind |-> "EOFError", lexer_state |-> ls]
    ELSE next_token_res(ls, accepts, match(ls.text, ls.char_pos, accepts))

----------------------------------------------------------------------------
(* GRAMMAR and its LALR(1) tables: parser = Lark(GRAMMAR, parser="lalr") *)

GRAMMAR == <<
    [origin |-> "start",  expansion |-> <<"expr">>],
    [origin |-> "expr",   expansion |-> <<"expr", "PLUS", "term">>],
    [origin |-> "expr",   expansion |-> <<"expr", "MINUS", "term">>],
    [origin |-> "expr",   expansion |-> <<"term">>],
    [origin |-> "term",   expansion |-> <<"term", "STAR", "factor">>],
    [origin |-> "term",   expansion |-> <<"term", "SLASH", "factor">>],
    [origin |-> "term",   expansion |-> <<"factor">>],
    [origin |-> "factor", expansion |-> <<"MINUS", "factor">>],
    [origin |-> "factor", expansion |-> <<"NUMBER">>],
    [origin |-> "factor", expansion |-> <<"LPAR", "expr", "RPAR">> ] >>

END == "$END"

Shift(n) == [action |-> "Shift", arg |-> n]
Reduce(r) == [action |-> "Reduce", arg |-> r]
NoAction == [action |-> None, arg |-> 0]

FollowExpr == {"PLUS", "MINUS", "RPAR", END}
FollowTerm == FollowExpr \cup {"STAR", "SLASH"}
\* states whose items all have the dot in front of a factor
OperandStates == {0, 5, 7, 8, 9, 10, 11}

\* a table in which no state shifts the unary "-"
OperandActionNoNeg(type) ==
    CASE type = "NUMBER" -> Shift(6) [] type = "LPAR" -> Shift(7)
      [] OTHER -> NoAction

\* the row of the states in which a factor is due
OperandAction(type) ==
    CASE type = "MINUS" -> Shift(5) [] type = "NUMBER" -> Shift(6)
      [] type = "LPAR" -> Shift(7) [] OTHER -> NoAction

\* ParseTable.states[state][terminal]
Action(state, type) ==
    CASE state \in OperandStates -> OperandAction(type)
      [] state = 2 ->
            (CASE type = "PLUS" -> Shift(8) [] type = "MINUS" -> Shift(9)
               [] type = END -> Reduce(1) [] OTHER -> NoAction)
      [] state = 3 ->
            (CASE type = "STAR" -> Shift(10) [] type = "SLASH" -> Shift(11)
               [] type \in FollowExpr -> Reduce(4) [] OTHER -> NoAction)
      [] state = 4 -> IF type \in FollowTerm THEN Reduce(7) ELSE NoAction
      [] state = 6 -> IF type \in FollowTerm THEN Reduce(9) ELSE NoAction
      [] state = 12 -> IF type \in FollowTerm THEN Reduce(8) ELSE NoAction
      [] state = 13 ->
            (CASE type = "RPAR" -> Shift(18) [] type = "PLUS" -> Shift(8)
               [] type = "MINUS" -> Shift(9) [] OTHER -> NoAction)
      [] state = 14 ->
            (CASE type = "STAR" -> Shift(10) [] type = "SLASH" -> Shift(11)
               [] type \in FollowExpr -> Reduce(2) [] OTHER -> NoAction)
      [] state = 15 ->
            (CASE type = "STAR" -> Shift(10) [] type = "SLASH" -> Shift(11)
               [] type \in FollowExpr -> Reduce(3) [] OTHER -> NoAction)
      [] state = 16 -> IF type \in FollowTerm THEN Reduce(5) ELSE NoAction
      [] state = 17 -> IF type \in FollowTerm THEN Reduce(6) ELSE NoAction
      [] state = 18 -> IF type \in FollowTerm THEN Reduce(10) ELSE NoAction
      [] OTHER -> NoAction

\* ParseTable.states[state][nonterminal]
Goto(state, origin) ==
    CASE state = 0 ->
            (CASE origin = "start" -> 1 [] origin = "expr" -> 2
               [] origin = "term" -> 3 [] OTHER -> 4)
      [] state = 5 -> 12
      [] state = 7 ->
            (CASE origin = "expr" -> 13 [] origin = "term" -> 3 [] OTHER -> 4)
      [] state = 8 -> IF origin = "term" THEN 14 ELSE 4
      [] state = 9 -> IF origin = "term" THEN 15 ELSE 4
      [] state = 10 -> 16
      [] OTHER -> 17

start_state == 0
end_state == 1

\* the terminals the contextual lexer scans for in a parser state
Accepts(state) == {t \in Terminals : Action(state, t).action # None}

\* a parser state kept from one call to the next
StaleParserState == state_stack

\* ParserState(parse_table, ...): a fresh stack holding the start state
MakeParserState == <<start_state>>

\* ParserState.feed_token: reduce as often as the table says, then shift once
RECURSIVE feed_token(_, _, _)
\* after a reduction: the rule's right-hand side popped, the goto state pushed
reduced(popped, new_state, token, is_end) ==
    IF is_end /\ new_state = end_state
    THEN [kind |-> "Accept", state_stack |-> Append(popped, new_state)]
    ELSE feed_token(Append(popped, new_state), token, is_end)
reduce_by(rule, popped, token, is_end) ==
    reduced(popped, Goto(popped[Len(popped)], rule.origin), token, is_end)
feed_action(stack, token, is_end, a) ==
    CASE a.action = "Shift" ->
            [kind |-> "Shift", state_stack |-> Append(stack, a.arg)]
      [] a.action = "Reduce" ->
            reduce_by(GRAMMAR[a.arg],
                      SubSeq(stack, 1,
                             Len(stack) - Len(GRAMMAR[a.arg].expansion)),
                      token, is_end)
      [] OTHER ->
            [kind |-> "UnexpectedToken", state_stack |-> stack]
feed_token(stack, token, is_end) ==
    feed_action(stack, token, is_end, Action(stack[Len(stack)], token.type))

\* a contextual lexer that does not consult the root lexer
lex_no_root(ls, state) == next_token(ls, Accepts(state))

\* ContextualLexer.lex: scan with the lexer of the parser's current state; on
\* UnexpectedCharacters try the root lexer (all terminals) and, when that one
\* finds a token, raise UnexpectedToken for it instead
lex_root(r, root) ==
    IF root.kind = "token"
    THEN [kind |-> "UnexpectedToken", token |-> root.token,
          lexer_state |-> root.lexer_state]
    ELSE [kind |-> "UnexpectedCharacters", token |-> NoToken,
          lexer_state |-> r.lexer_state]
lex_state(r) ==
    IF r.kind = "UnexpectedCharacters"
    THEN lex_root(r, next_token(r.lexer_state, Terminals))
    ELSE r
lex(ls, state) == lex_state(next_token(ls, Accepts(state)))

\* an end of input reported the way UnexpectedEOF is, at offset -1
EndTokenEOF(last) == Token(END, -1, -1)

\* an end token placed at column 1 instead of offset 0 in a text without tokens
EndTokenOneBased(last) ==
    IF last = NoToken THEN Token(END, 1, 1)
    ELSE Token(END, last.start_pos, last.end_pos)

\* the $END token fed after the last token: Token.new_borrow_pos('$END', '',
\* token) takes the last token's position, Token('$END', '', 0, 1, 1) is used
\* when the text held no token
EndToken(last) ==
    IF last = NoToken THEN Token(END, 0, 0)
    ELSE Token(END, last.start_pos, last.end_pos)

\* an UnexpectedToken that reports the token's end instead of its start
RaisedEndPos(exc, pos, token, ls, stack) ==
    [exc |-> exc,
     pos_in_stream |-> IF exc = "UnexpectedToken" THEN token.end_pos ELSE pos,
     token |-> token.type, lexer_state |-> ls, state_stack |-> stack]

\* an exception leaving the parser: pos_in_stream is the token's start_pos for
\* UnexpectedToken and the lexer's offset for UnexpectedCharacters
Raised(exc, pos, token, ls, stack) ==
    [exc |-> exc, pos_in_stream |-> pos, token |-> token.type,
     lexer_state |-> ls, state_stack |-> stack]

\* _Parser.parse_from_state: the main LALR loop
RECURSIVE parse_from_state(_, _)
\* state.feed_token(token) done: shifted, or UnexpectedToken raised
fed(ls, token, f) ==
    IF f.kind = "Shift"
    THEN parse_from_state(ls, f.state_stack)
    ELSE Raised("UnexpectedToken", token.start_pos, token, ls, f.state_stack)
\* state.feed_token(end_token, True) done: the parse tree returned, or
\* UnexpectedToken raised for the $END token
fed_end(ls, end_token, f) ==
    IF f.kind = "Accept"
    THEN Raised(None, 0, NoToken, ls, f.state_stack)
    ELSE Raised("UnexpectedToken", end_token.start_pos, end_token, ls,
                f.state_stack)
feed_end(ls, stack, end_token) ==
    fed_end(ls, end_token, feed_token(stack, end_token, TRUE))
\* one turn of the loop, on what the lexer gave
parse_token(r, stack) ==
    CASE r.kind = "token" ->
            fed(r.lexer_state, r.token, feed_token(stack, r.token, FALSE))
      [] r.kind = "EOFError" ->
            feed_end(r.lexer_state, stack, EndToken(r.lexer_state.last_token))
      [] r.kind = "UnexpectedToken" ->
            Raised("UnexpectedToken", r.token.start_pos, r.token,
                   r.lexer_state, stack)
      [] OTHER ->
            Raised("UnexpectedCharacters", r.lexer_state.char_pos, NoToken,
                   r.lexer_state, stack)
parse_from_state(ls, stack) == parse_token(lex(ls, stack[Len(stack)]), stack)

\* a parse that scans the whole text before the parser sees a token
RECURSIVE scan_all(_)
scanned(r) == IF r.kind = "token" THEN scan_all(r.lexer_state) ELSE r
scan_all(ls) == scanned(next_token(ls, Terminals))
parse_scanned(text, r) ==
    IF r.kind = "UnexpectedCharacters"
    THEN Raised("UnexpectedCharacters", r.lexer_state.char_pos, NoToken,
                r.lexer_state, <<start_state>>)
    ELSE parse_from_state(MakeLexerState(text), <<start_state>>)
parse_eager(text) == parse_scanned(text, scan_all(MakeLexerState(text)))

\* parser.parse(expr): a lexer state and a parser state made for this call
parse(text) == parse_from_state(MakeLexerState(text), MakeParserState)

----------------------------------------------------------------------------
(* validate_expression *)

NoError == [fmt |-> None, has_pos |-> FALSE, pos |-> 0, exc |-> None,
            token |-> None]

\* f"<fmt> {pos_in_stream}: {exception}"
Message(fmt, p) ==
    [fmt |-> fmt, has_pos |-> TRUE, pos |-> p.pos_in_stream, exc |-> p.exc,
     token |-> p.token]

UnexpectedInput == {"UnexpectedToken", "UnexpectedCharacters", "UnexpectedEOF"}

\* a try/except without the UnexpectedInput clause
OutcomeNoInputClause(p) ==
    CASE p.exc = None -> [valid |-> TRUE, error |-> NoError]
      [] p.exc = "UnexpectedToken" ->
            [valid |-> FALSE,
             error |-> Message("Unexpected token at position", p)]
      [] OTHER ->
            [valid |-> FALSE,
             error |-> [fmt |-> "str(e)", has_pos |-> FALSE, pos |-> 0,
                        exc |-> p.exc, token |-> None]]

\* the (is_valid, error) pair the try/except makes of a finished parse
Outcome(p) ==
    CASE p.exc = None -> [valid |-> TRUE, error |-> NoError]
      [] p.exc = "UnexpectedToken" ->
            [valid |-> FALSE,
             error |-> Message("Unexpected token at position", p)]
      [] p.exc \in UnexpectedInput ->
            [valid |-> FALSE,
             error |-> Message("Invalid input at position", p)]
      [] OTHER ->
            [valid |-> FALSE,
             error |-> [fmt |-> "str(e)", has_pos |-> FALSE, pos |-> 0,
                        exc |-> p.exc, token |-> None]]

validate_expression(text) == Outcome(parse(text))

NotCalled == [called |-> FALSE]

\* one call: the return value, and what the call leaves behind
Returns(text, p) ==
    /\ expr' = text
    /\ ret' = Outcome(p)
    /\ lexer_state' = p.lexer_state
    /\ state_stack' = p.state_stack
Call(text) == Returns(text, parse(text))

----------------------------------------------------------------------------
(* Presentation layer: CFGValidatorApp *)

\* the characters str.strip() removes
Whitespace == {" ", "\t", "\n", "\r"}

RECURSIVE lstrip(_)
lstrip(text) ==
    IF text # <<>> /\ Head(text) \in Whitespace THEN lstrip(Tail(text)) ELSE text

RECURSIVE rstrip(_)
rstrip(text) ==
    IF text # <<>> /\ text[Len(text)] \in Whitespace
    THEN rstrip(SubSeq(text, 1, Len(text) - 1)) ELSE text

strip(text) == rstrip(lstrip(text))

\* append_result: one more line in the result box
append_result(line) == result_box' = Append(result_box, line)

\* the user types one more character into the entry
Type(c) ==
    /\ Len(input_var) < MaxEntry
    /\ input_var' = Append(input_var, c)
    /\ UNCHANGED <<expr, ret, lexer_state, state_stack, status, result_box,
                   messagebox, first>>

check_expr(e) ==
    IF e = <<>>
    THEN /\ messagebox' = "Empty input"
         /\ UNCHANGED <<expr, ret, lexer_state, state_stack, input_var,
                        status, result_box, first>>
    ELSE /\ Len(result_box) < MaxLog
         /\ Call(e)
         /\ IF ret'.valid
            THEN /\ status' = "Valid expression"
                 /\ append_result([tag |-> "[OK]", expr |-> e,
                                   err |-> NoError])
            ELSE /\ status' = "Invalid expression"
                 /\ append_result([tag |-> "[ERROR]", expr |-> e,
                                   err |-> ret'.error])
         /\ UNCHANGED <<input_var, messagebox, first>>
check == check_expr(strip(input_var))

clear ==
    /\ input_var' = <<>>
    /\ result_box' = <<>>
    /\ status' = "Cleared"
    /\ UNCHANGED <<expr, ret, lexer_state, state_stack, messagebox, first>>

examples == << <<"1", "+", "2", "*", "3">>,
               <<"(", "4", " ", "-", " ", "5", ")", " ", "*", " ",
                 "(", "6", " ", "+", " ", "7", ")">>,
               <<"-", "(", "3", "+", "2", ")", "*", "4">>,
               <<"4", "2">>,
               <<"3", " ", "+", " ", "*", " ", "4">>,
               <<"(", "1", "+", "2">> >>

insert_example ==
    /\ input_var' = examples[1]
    /\ status' = "Inserted example"
    /\ UNCHANGED <<expr, ret, lexer_state, state_stack, result_box,
                   messagebox, first>>

----------------------------------------------------------------------------
(* Callers of validate_expression *)

\* all strings over S of length at most n
Strings(S, n) == UNION {[1..k -> S] : k \in 0..n}

\* strings beyond the enumerated ones: the other operators and digits, tabs,
\* characters of no token, exponents, deeper nesting
Extra == {
    <<"4", "2", " ", "4", "3">>,
    <<"8", "-", "3", "-", "2">>,
    <<"-", "-", "-", "1", "/", "2">>,
    <<"(", "(", "(", "7", ")", ")", ")">>,
    <<"(", "(", "1", ")", "+", "2">>,
    <<"1", "\t", "/", "\t", "2">>,
    <<" ", "\t", "1", " ", "/", " ", "/", "2">>,
    <<"1", ".", "5", "e", "-", "3", "*", ".", "5", "E", "2">>,
    <<"1", "e", "+", "+", "2">>,
    <<"1", " ", "+", " ", "@", " ", "*">>,
    <<"1", " ", "*", " ", "*", " ", "@">>,
    <<"1", " ", ")", " ", "@">>,
    <<"@">>,
    <<"1", "\n">>,
    <<" ", " ", "(", "1", "+", "2", " ", " ">>,
    <<"\t", "\t">>,
    <<"2", " ", "x", " ", "3">> }

Inputs == Strings(Alphabet, MaxLen) \cup {examples[i] : i \in DOMAIN examples}
              \cup Extra

\* strings a sequence of calls is drawn from: valid ones, ones rejected by
\* the parser with more or less left on its stack, ones rejected by the lexer
CallInputs == {<<>>, <<"1">>, <<"(">>, <<"1", ")">>, <<"(", "1">>,
               <<"1", "+">>, <<"@">>, <<"1", " ", "@">>,
               examples[1], examples[5], examples[6]}

\* a direct call validate_expression(text); the history keeps the first call
\* made with each string and its outcome, for up to MaxCalls strings
Validate(text) ==
    /\ Call(text)
    /\ first' = IF Len(first) >= MaxCalls
                      \/ \E i \in DOMAIN first : first[i].text = text
                THEN first
                ELSE Append(first, [text |-> text, ret |-> ret'])
    /\ UNCHANGED <<input_var, status, result_box, messagebox>>

----------------------------------------------------------------------------
(* The language of GRAMMAR, read off its rules: which spans of a sequence  *)
(* of terminal names each rule derives                                     *)

RECURSIVE DerivesExpr(_, _, _), DerivesTerm(_, _, _), DerivesFactor(_, _, _)

\* ?factor: "-" factor | NUMBER | "(" expr ")"
DerivesFactor(w, i, j) ==
    /\ i <= j
    /\ \/ i = j /\ w[i] = "NUMBER"
       \/ w[i] = "MINUS" /\ DerivesFactor(w, i + 1, j)
       \/ j >= i + 2 /\ w[i] = "LPAR" /\ w[j] = "RPAR"
             /\ DerivesExpr(w, i + 1, j - 1)

\* ?term: term "*" factor | term "/" factor | factor
DerivesTerm(w, i, j) ==
    \/ DerivesFactor(w, i, j)
    \/ \E k \in (i + 1)..(j - 1) :
          /\ w[k] \in {"STAR", "SLASH"}
          /\ DerivesFactor(w, k + 1, j)
          /\ DerivesTerm(w, i, k - 1)

\* ?expr: expr "+" term | expr "-" term | term
DerivesExpr(w, i, j) ==
    \/ DerivesTerm(w, i, j)
    \/ \E k \in (i + 1)..(j - 1) :
          /\ w[k] \in {"PLUS", "MINUS"}
          /\ DerivesTerm(w, k + 1, j)
          /\ DerivesExpr(w, i, k - 1)

\* ?start: expr
Sentence(w) == DerivesExpr(w, 1, Len(w))

\* w can be continued to a sentence: by an operand, if one is due, and the
\* closing parentheses still owed
Repeat(x, n) == [i \in 1..n |-> x]
ViablePrefix(w) ==
    \E c \in 0..Len(w) :
        \/ Sentence(w \o Repeat("RPAR", c))
        \/ Sentence(w \o <<"NUMBER">> \o Repeat("RPAR", c))

(* The terminals of common.lark, read off their definitions: which         *)
(* substrings text[i..j] (1-based, inclusive) each one derives             *)

\* INT: DIGIT+
IsINT(text, i, j) == i <= j /\ \A k \in i..j : text[k] \in DIGIT

\* DECIMAL: INT "." INT? | "." INT
IsDECIMAL(text, i, j) ==
    \/ \E d \in (i + 1)..j :
          text[d] = "." /\ IsINT(text, i, d - 1)
              /\ (d = j \/ IsINT(text, d + 1, j))
    \/ i < j /\ text[i] = "." /\ IsINT(text, i + 1, j)

\* _EXP: ("e"|"E") SIGNED_INT, SIGNED_INT: ["+"|"-"] INT
IsEXP(text, i, j) ==
    /\ i < j
    /\ text[i] \in {"e", "E"}
    /\ \/ IsINT(text, i + 1, j)
       \/ text[i + 1] \in {"+", "-"} /\ IsINT(text, i + 2, j)

\* FLOAT: INT _EXP | DECIMAL _EXP?
IsFLOAT(text, i, j) ==
    \/ IsDECIMAL(text, i, j)
    \/ \E k \in i..(j - 1) :
          (IsINT(text, i, k) \/ IsDECIMAL(text, i, k)) /\ IsEXP(text, k + 1, j)

\* NUMBER: FLOAT | INT
IsNUMBER(text, i, j) == IsFLOAT(text, i, j) \/ IsINT(text, i, j)

Max(S) == CHOOSE x \in S : \A y \in S : y <= x

\* The terminals of the whole text, scanned once from the left with every
\* terminal allowed and the longest match taken: WS_INLINE dropped, and a
\* last element of type BAD at the first character that begins no terminal
RECURSIVE TerminalsOf(_, _)
TerminalsOf(text, i) ==
    IF i > Len(text) THEN <<>>
    ELSE IF text[i] \in WS_INLINE THEN TerminalsOf(text, i + 1)
    ELSE LET ends == {j \in i..Len(text) : IsNUMBER(text, i, j)}
         IN  IF ends # {}
             THEN <<Token("NUMBER", i - 1, Max(ends))>>
                      \o TerminalsOf(text, Max(ends) + 1)
             ELSE IF text[i] \in DOMAIN Punct
             THEN <<Token(Punct[text[i]], i - 1, i)>> \o TerminalsOf(text, i + 1)
             ELSE <<Token("BAD", i - 1, i)>>

Types(tokens) == [i \in 1..Len(tokens) |-> tokens[i].type]

\* the string is in the language: its terminals form a sentence
InLanguage(text) == Sentence(Types(TerminalsOf(text, 1)))

\* the first offence met scanning from the left: the first terminal (or
\* character of no terminal) after which no continuation is a sentence
Offences(text) ==
    LET tokens == TerminalsOf(text, 1)
        w == Types(tokens)
    IN  {tokens[k].start_pos : k \in {n \in 1..Len(w) :
                                        ~ViablePrefix(SubSeq(w, 1, n))}}
Min(S) == CHOOSE x \in S : \A y \in S : x <= y

----------------------------------------------------------------------------
(* Specifications *)

InitApp ==
    /\ ret = NotCalled
    /\ lexer_state = MakeLexerState(<<>>)
    /\ state_stack = <<start_state>>
    /\ input_var = <<>>
    /\ status = "Ready"
    /\ result_box = <<>>
    /\ messagebox = ""
    /\ first = <<>>

\* validate_expression as a function of one string
Init == expr \in Inputs /\ InitApp
Next == Validate(expr)
Spec == Init /\ [][Next]_vars

\* sequences of calls on the one module-level parser
InitCalls == expr = <<>> /\ InitApp
NextCalls == \E text \in CallInputs : Validate(text)
SpecCalls == InitCalls /\ [][NextCalls]_vars

\* the application window: the user types, then presses a button
InitGui == expr = <<>> /\ InitApp
NextGui == (\E c \in EntryAlphabet : Type(c)) \/ check \/ clear \/ insert_example
SpecGui == InitGui /\ [][NextGui]_vars

----------------------------------------------------------------------------
(* Properties *)

Returned == "valid" \in DOMAIN ret
Rejected == Returned /\ ~ret.valid

\* C1: validate_expression returns valid exactly when the string, inline
\* spaces and tabs between terminals ignored, is derivable from the grammar;
\* the valid examples of insert_example and nested unary minus are accepted.
C1_ValidIffInLanguage ==
    Returned =>
        /\ ret.valid <=> InLanguage(expr)
        /\ expr \in {examples[1], examples[2], examples[3], examples[4],
                     <<"-", "-", "-", "1", "/", "2">>} => ret.valid
C1_Witness ==
    /\ Returned /\ ret.valid
    /\ Len(expr) = MaxLen
    /\ \E i \in DOMAIN expr : expr[i] = "("

\* C2: validate_expression never raises: a failure of the lexing stage (a
\* character that begins no terminal) and a failure of the parsing stage both
\* come back as the same (False, message) pair whose message carries a
\* position, never as an exception and never without a position.
C2_UniformInvalidOutcome ==
    Returned =>
        /\ DOMAIN ret = {"valid", "error"}
        /\ ret.valid => ret.error = NoError
        /\ ~ret.valid =>
              /\ ret.error.has_pos
              /\ ret.error.pos \in Int
              /\ ret.error.exc \in {"UnexpectedToken", "UnexpectedCharacters"}
              /\ ret.error.fmt \in {"Unexpected token at position",
                                    "Invalid input at position"}
C2_Witness ==
    /\ Rejected
    /\ ret.error.exc = "UnexpectedCharacters"
    /\ ret.error.has_pos
    /\ ret.error.pos > 0

\* C3: for every rejected string the reported position p satisfies
\* 0 <= p <= length of the string.
C3_PositionInRange ==
    Rejected => ret.error.has_pos /\ 0 <= ret.error.pos /\ ret.error.pos <= Len(expr)
C3_Witness ==
    /\ Rejected
    /\ ret.error.token = END
    /\ Len(expr) = MaxLen
    /\ ret.error.pos = Len(expr) - 1

\* C4: a call reports valid or exactly one failure, the first one met from
\* the left: whenever the string holds a terminal in a wrong place or a
\* character that begins no terminal, the reported position is that of the
\* leftmost such offence.
C4_FirstFailureReported ==
    Returned =>
        /\ ret.valid \/ ret.error.has_pos
        /\ Offences(expr) # {} =>
              Rejected /\ ret.error.pos = Min(Offences(expr))
\* a terminal in a wrong place with a character of no terminal to its right
C4_Witness ==
    /\ Rejected
    /\ ret.error.exc = "UnexpectedToken"
    /\ LET tokens == TerminalsOf(expr, 1)
       IN  /\ tokens # <<>>
           /\ tokens[Len(tokens)].type = "BAD"
           /\ ret.error.pos < tokens[Len(tokens)].start_pos
           /\ ret.error.pos = Min(Offences(expr))

\* a binary operator, with all before it in order, followed by a terminal
\* that cannot start an operand: the index of that terminal
MissingOperand(w) ==
    {k + 1 : k \in {n \in 2..(Len(w) - 1) :
                      /\ w[n] \in {"PLUS", "MINUS", "STAR", "SLASH"}
                      /\ w[n - 1] \in {"NUMBER", "RPAR"}
                      /\ w[n + 1] \in {"PLUS", "STAR", "SLASH", "RPAR"}
                      /\ ViablePrefix(SubSeq(w, 1, n))}}

\* C5: when a binary operator is followed by a terminal that cannot start an
\* operand, the string is rejected at the offset of that terminal, which the
\* message names as unexpected; "3 + * 4" is rejected at offset 4, the "*".
C5_MissingOperandAtOffender ==
    Returned =>
        /\ LET tokens == TerminalsOf(expr, 1)
           IN  \A k \in MissingOperand(Types(tokens)) :
                  /\ Rejected
                  /\ ret.error.pos = tokens[k].start_pos
                  /\ ret.error.exc = "UnexpectedToken"
                  /\ ret.error.token = tokens[k].type
        /\ expr = examples[5] =>
              Rejected /\ ret.error.pos = Len(<<"3", " ", "+", " ">>)
                  /\ ret.error.token = "STAR"
C5_Witness ==
    /\ Rejected
    /\ expr = examples[5]
    /\ MissingOperand(Types(TerminalsOf(expr, 1))) # {}

\* the string ends, all its terminals in order, after an operand and with a
\* "(" still open
UnmatchedAtEnd(text) ==
    LET w == Types(TerminalsOf(text, 1))
    IN  /\ w # <<>>
        /\ w[Len(w)] \in {"NUMBER", "RPAR"}
        /\ ViablePrefix(w)
        /\ ~Sentence(w)

\* C6: when the string ends while a "(" is unmatched, it is rejected at the
\* end-of-input offset, the length of the string (4 for "(1+2"), the message
\* saying what was expected at the end of the input.
C6_UnmatchedAtEndOffset ==
    Returned /\ UnmatchedAtEnd(expr) =>
        Rejected /\ ret.error.token = END /\ ret.error.pos = Len(expr)

\* C7: validate_expression("") returns an invalid outcome whose position is 0.
C7_EmptyRejectedAtZero ==
    Returned /\ expr = <<>> =>
        Rejected /\ ret.error.has_pos /\ ret.error.pos = 0
C7_Witness == Rejected /\ expr = <<>> /\ ret.error.token = END

\* a sentence followed by a terminal that cannot continue it: the index of
\* that terminal
Trailing(w) ==
    {k + 1 : k \in {n \in 1..(Len(w) - 1) :
                      /\ w[n + 1] # "BAD"
                      /\ Sentence(SubSeq(w, 1, n))
                      /\ ~ViablePrefix(SubSeq(w, 1, n + 1))}}

\* C8: when a complete expression is followed by further terminals, the
\* string is rejected at the offset of the first unconsumed one; "42 43" is
\* rejected at offset 3.
C8_TrailingInputAtFirstExtra ==
    Returned =>
        /\ LET tokens == TerminalsOf(expr, 1)
           IN  \A k \in Trailing(Types(tokens)) :
                  Rejected /\ ret.error.pos = tokens[k].start_pos
        /\ expr = <<"4", "2", " ", "4", "3">> =>
              Rejected /\ ret.error.pos = Len(<<"4", "2", " ">>)
C8_Witness ==
    /\ Rejected
    /\ expr = <<"4", "2", " ", "4", "3">>
    /\ Trailing(Types(TerminalsOf(expr, 1))) # {}

\* C9: the position reported for a rejected string is the offset of the
\* offending terminal or character in the string as the user supplied it,
\* leading and interior spaces and tabs counted, also when the string comes
\* through the check action of the presentation layer.
C9_PositionsAgainstOriginal ==
    [][(Len(result_box') = Len(result_box) + 1 /\ ~ret'.valid
            /\ Offences(input_var) # {})
          => ret'.error.pos = Min(Offences(input_var))]_vars

====
